---- MODULE Spec2Model ----
(***************************************************************************)
(* The grounded draft / verify / retry loop of src/main.py:                *)
(* HunterAgent (drafter), AuditorAgent (verifier over the MITRE and NICE   *)
(* tables) and DeepResearchSystem.run (orchestrator).                      *)
(*                                                                         *)
(* Encoding of Python values.  A str whose content the code inspects is a  *)
(* sequence of one-character strings.  A dict is a record over its keys    *)
(* ({} is the record with no field).  Where the generation capability      *)
(* decides the JSON type of a value, the value is wrapped in a one-field   *)
(* record named after its type: [str |-> s], [arr |-> <<...>>],            *)
(* [num |-> n]; a dict stays a plain record (no modelled dict has a key    *)
(* str, arr or num).                                                       *)
(***************************************************************************)
EXTENDS Integers, Sequences, FiniteSets, TLC

\* src/main.py:21
MAX_LOOPS == 5

----------------------------------------------------------------------------
(* Python str primitives, on sequences of characters. *)

\* U+0060, which a TLA+ string cannot hold.
Backtick == "BACKTICK"

\* The characters of the model in code-point order.
Chars ==
  <<" ", "&", "'", ",", "-", ".", "/",
    "0", "1", "2", "3", "4", "5", "6", "7", "8", "9", ":",
    "A", "B", "C", "D", "E", "F", "G", "H", "I", "J", "K", "L", "M",
    "N", "O", "P", "Q", "R", "S", "T", "U", "V", "W", "X", "Y", "Z",
    "[", "]", Backtick,
    "a", "b", "c", "d", "e", "f", "g", "h", "i", "j", "k", "l", "m",
    "n", "o", "p", "q", "r", "s", "t", "u", "v", "w", "x", "y", "z">>

\* The code point order of the characters, as a table.
Ord == [c \in {Chars[k] : k \in DOMAIN Chars} |->
          CHOOSE k \in DOMAIN Chars : Chars[k] = c]

\* c.lower() and c.upper(), as tables.
LowerOf ==
  [c \in DOMAIN Ord |->
     IF Ord[c] >= Ord["A"] /\ Ord[c] <= Ord["Z"]
     THEN Chars[Ord[c] - Ord["A"] + Ord["a"]] ELSE c]

UpperOf ==
  [c \in DOMAIN Ord |->
     IF Ord[c] >= Ord["a"] /\ Ord[c] <= Ord["z"]
     THEN Chars[Ord[c] - Ord["a"] + Ord["A"]] ELSE c]

\* A function constructor denotes its function without computing it; List
\* and Dict are the same list and the same dict, computed.
List(f) == SubSeq(f, 1, Len(f))
Dict(f) == f @@ <<>>

\* str.lower()
lower(s) == List([k \in DOMAIN s |-> LowerOf[s[k]]])

\* str.upper()
upper(s) == List([k \in DOMAIN s |-> UpperOf[s[k]]])

\* a < b on str: lexicographic by code point, a proper prefix first.
StrLess(a, b) ==
  \E k \in 1..(Len(b)) :
     /\ k <= Len(a) + 1
     /\ \A j \in 1..(k - 1) : a[j] = b[j]
     /\ (k = Len(a) + 1 \/ Ord[a[k]] < Ord[b[k]])

\* t in s (substring)
Contains(s, t) ==
  \E k \in 0..(Len(s) - Len(t)) : SubSeq(s, k + 1, k + Len(t)) = t

\* s.startswith(p)
startswith(s, p) == Len(s) >= Len(p) /\ SubSeq(s, 1, Len(p)) = p

\* s[:n]
Prefix(s, n) == SubSeq(s, 1, IF Len(s) < n THEN Len(s) ELSE n)

\* s.replace(old, new), old non-empty: leftmost non-overlapping occurrences.
RECURSIVE replace(_, _, _)
replace(s, old, new) ==
  IF ~Contains(s, old) THEN s
  ELSE LET k == CHOOSE a \in 0..(Len(s) - Len(old)) :
                  /\ SubSeq(s, a + 1, a + Len(old)) = old
                  /\ \A b \in 0..(a - 1) : SubSeq(s, b + 1, b + Len(old)) # old
       IN SubSeq(s, 1, k) \o new
            \o replace(SubSeq(s, k + Len(old) + 1, Len(s)), old, new)

\* s.strip(): the only whitespace of the model is the blank.
RECURSIVE lstrip(_)
lstrip(s) == IF s # <<>> /\ s[1] = " " THEN lstrip(Tail(s)) ELSE s

RECURSIVE rstrip(_)
rstrip(s) ==
  IF s # <<>> /\ s[Len(s)] = " " THEN rstrip(SubSeq(s, 1, Len(s) - 1)) ELSE s

strip(s) == rstrip(lstrip(s))

\* The first word of s (s starts with a non-blank).
RECURSIVE WordAt(_)
WordAt(s) ==
  IF s = <<>> \/ s[1] = " " THEN <<>> ELSE <<s[1]>> \o WordAt(Tail(s))

\* s.split(): the maximal runs of non-blank characters.
RECURSIVE split(_)
split(s) ==
  LET t == lstrip(s) IN
  IF t = <<>> THEN <<>>
  ELSE LET w == WordAt(t) IN <<w>> \o split(SubSeq(t, Len(w) + 1, Len(t)))

\* s.split(','): the pieces between the commas (at least one piece).
RECURSIVE splitComma(_)
splitComma(s) ==
  IF \A k \in DOMAIN s : s[k] # "," THEN <<s>>
  ELSE LET k == CHOOSE a \in DOMAIN s : s[a] = "," /\ \A b \in 1..(a - 1) : s[b] # ","
       IN <<SubSeq(s, 1, k - 1)>> \o splitComma(SubSeq(s, k + 1, Len(s)))

\* sorted(S) for a set of str.
RECURSIVE sorted(_)
sorted(S) ==
  IF S = {} THEN <<>>
  ELSE LET m == CHOOSE x \in S : \A y \in S \ {x} : StrLess(x, y)
       IN <<m>> \o sorted(S \ {m})

\* The elements of a sequence.
Range(seq) == {seq[k] : k \in DOMAIN seq}

\* seq1 + seq2 + ... for a sequence of sequences.
RECURSIVE Flatten(_)
Flatten(seqs) ==
  LET l == List(seqs) IN IF l = <<>> THEN <<>> ELSE l[1] \o Flatten(Tail(l))

----------------------------------------------------------------------------
(* String constants of the code and the texts of the model's samples. *)

\* Identifiers.
ID_T1190 ==
  <<"T", "1", "1", "9", "0">>
ID_T1566 ==
  <<"T", "1", "5", "6", "6">>
ID_T1566_001 ==
  <<"T", "1", "5", "6", "6", ".", "0", "0", "1">>
ID_T9999 ==
  <<"T", "9", "9", "9", "9">>
ID_T0021 ==
  <<"T", "0", "0", "2", "1">>
ID_K0001 ==
  <<"K", "0", "0", "0", "1">>
ID_K1014 ==
  <<"K", "1", "0", "1", "4">>
ID_S0544 ==
  <<"S", "0", "5", "4", "4">>
ID_T1084 ==
  <<"T", "1", "0", "8", "4">>

\* Status values (src/main.py:474, 536-540).
S_PASS ==
  <<"P", "A", "S", "S">>
S_FAIL ==
  <<"F", "A", "I", "L">>
S_pass ==
  <<"p", "a", "s", "s">>

\* Code-fence markers (src/main.py:137, 470).
FenceJson ==
  <<Backtick, Backtick, Backtick, "j", "s", "o", "n">>
Fence ==
  <<Backtick, Backtick, Backtick>>

\* Boilerplate stripped from a drafted description (src/main.py:413).
S_KnowledgeOf ==
  <<"K", "n", "o", "w", "l", "e", "d", "g", "e", " ", "o", "f">>
S_SkillIn ==
  <<"S", "k", "i", "l", "l", " ", "i", "n">>
S_AbilityTo ==
  <<"A", "b", "i", "l", "i", "t", "y", " ", "t", "o">>

\* Source tags (src/main.py:243-244).
SRC_MITRE ==
  <<"M", "I", "T", "R", "E", " ", "A", "T", "T", "&", "C", "K">>
SRC_NICE ==
  <<"N", "I", "C", "E", " ", "F", "r", "a", "m", "e", "w", "o", "r", "k">>

\* Fixed feedback texts (src/main.py:495, 528, 488).
S_AuditorCrashed ==
  <<"A", "u", "d", "i", "t", "o", "r", " ", "c", "r", "a", "s", "h", "e",
  "d", ".", " ", "P", "l", "e", "a", "s", "e", " ", "r", "e", "t", "r", "y",
  ".">>
S_InvalidJson ==
  <<"P", "r", "e", "v", "i", "o", "u", "s", " ", "J", "S", "O", "N", " ",
  "w", "a", "s", " ", "i", "n", "v", "a", "l", "i", "d", ".", " ", "O", "u",
  "t", "p", "u", "t", " ", "s", "t", "r", "i", "c", "t", " ", "J", "S", "O",
  "N", ".">>
S_SuggestionsHeader ==
  <<"[", "A", "U", "D", "I", "T", "O", "R", " ", "S", "U", "G", "G", "E",
  "S", "T", "I", "O", "N", "S", "]", ":">>

\* Stop words (src/main.py:221).
STOP ==
  {<<"t", "h", "e">>, <<"a">>, <<"a", "n">>, <<"a", "n", "d">>, <<"o", "r">>,
  <<"b", "u", "t">>, <<"i", "n">>, <<"o", "n">>, <<"a", "t">>, <<"t", "o">>,
  <<"f", "o", "r">>, <<"o", "f">>, <<"w", "i", "t", "h">>, <<"b", "y">>}

\* Texts of the knowledge-base snapshot.
N_T1190 ==
  <<"E", "x", "p", "l", "o", "i", "t", " ", "P", "u", "b", "l", "i", "c",
  "-", "F", "a", "c", "i", "n", "g", " ", "A", "p", "p", "l", "i", "c", "a",
  "t", "i", "o", "n">>
D_T1190 ==
  <<"A", "d", "v", "e", "r", "s", "a", "r", "i", "e", "s", " ", "e", "x",
  "p", "l", "o", "i", "t", " ", "a", " ", "w", "e", "a", "k", "n", "e", "s",
  "s", " ", "o", "f", " ", "a", "n", " ", "e", "x", "p", "o", "s", "e", "d",
  " ", "h", "o", "s", "t">>
U_T1190 ==
  <<"h", "t", "t", "p", "s", ":", "/", "/", "a", "t", "t", "a", "c", "k",
  ".", "m", "i", "t", "r", "e", ".", "o", "r", "g", "/", "t", "e", "c", "h",
  "n", "i", "q", "u", "e", "s", "/", "T", "1", "1", "9", "0">>
N_T1566 ==
  <<"P", "h", "i", "s", "h", "i", "n", "g">>
D_T1566 ==
  <<"A", "d", "v", "e", "r", "s", "a", "r", "i", "e", "s", " ", "s", "e",
  "n", "d", " ", "p", "h", "i", "s", "h", "i", "n", "g", " ", "m", "e", "s",
  "s", "a", "g", "e", "s", " ", "w", "i", "t", "h", " ", "a", " ", "f", "a",
  "k", "e", " ", "l", "o", "g", "i", "n", " ", "l", "i", "n", "k">>
U_T1566 ==
  <<"h", "t", "t", "p", "s", ":", "/", "/", "a", "t", "t", "a", "c", "k",
  ".", "m", "i", "t", "r", "e", ".", "o", "r", "g", "/", "t", "e", "c", "h",
  "n", "i", "q", "u", "e", "s", "/", "T", "1", "5", "6", "6">>
N_T1566_001 ==
  <<"S", "p", "e", "a", "r", "p", "h", "i", "s", "h", "i", "n", "g", " ",
  "A", "t", "t", "a", "c", "h", "m", "e", "n", "t">>
D_T1566_001 ==
  <<"A", "d", "v", "e", "r", "s", "a", "r", "i", "e", "s", " ", "s", "e",
  "n", "d", " ", "e", "m", "a", "i", "l", "s", " ", "w", "i", "t", "h", " ",
  "a", " ", "m", "a", "l", "i", "c", "i", "o", "u", "s", " ", "a", "t", "t",
  "a", "c", "h", "m", "e", "n", "t">>
U_T1566_001 ==
  <<"h", "t", "t", "p", "s", ":", "/", "/", "a", "t", "t", "a", "c", "k",
  ".", "m", "i", "t", "r", "e", ".", "o", "r", "g", "/", "t", "e", "c", "h",
  "n", "i", "q", "u", "e", "s", "/", "T", "1", "5", "6", "6", ".", "0", "0",
  "1">>
TY_Knowledge ==
  <<"K", "n", "o", "w", "l", "e", "d", "g", "e">>
TY_Skill ==
  <<"S", "k", "i", "l", "l">>
TY_Task ==
  <<"T", "a", "s", "k">>
D_K1014 ==
  <<"K", "n", "o", "w", "l", "e", "d", "g", "e", " ", "o", "f", " ", "p",
  "h", "i", "s", "h", "i", "n", "g", " ", "t", "h", "r", "e", "a", "t", "s",
  " ", "a", "n", "d", " ", "f", "a", "k", "e", " ", "l", "o", "g", "i", "n",
  " ", "p", "a", "g", "e", "s">>
D_S0544 ==
  <<"S", "k", "i", "l", "l", " ", "i", "n", " ", "r", "e", "c", "o", "g",
  "n", "i", "z", "i", "n", "g", " ", "m", "a", "l", "i", "c", "i", "o", "u",
  "s", " ", "e", "m", "a", "i", "l">>
D_T1084 ==
  <<"I", "d", "e", "n", "t", "i", "f", "y", " ", "a", "n", "o", "m", "a",
  "l", "o", "u", "s", " ", "l", "o", "g", "i", "n", " ", "a", "c", "t", "i",
  "v", "i", "t", "y">>

\* Texts a draft may carry.
TXT_Summary ==
  <<"U", "s", "e", "r", " ", "r", "e", "c", "e", "i", "v", "e", "d", " ",
  "a", " ", "p", "h", "i", "s", "h", "i", "n", "g", " ", "e", "m", "a", "i",
  "l">>
TXT_Why ==
  <<"M", "a", "t", "c", "h", "e", "s", " ", "t", "h", "e", " ", "l", "u",
  "r", "e">>
TXT_ExploitApp ==
  <<"E", "x", "p", "l", "o", "i", "t", " ", "p", "u", "b", "l", "i", "c",
  " ", "a", "p", "p", "l", "i", "c", "a", "t", "i", "o", "n", " ", "w", "e",
  "a", "k", "n", "e", "s", "s">>
TXT_KnowPhish ==
  <<"K", "n", "o", "w", "l", "e", "d", "g", "e", " ", "o", "f", " ", "p",
  "h", "i", "s", "h", "i", "n", "g", " ", "t", "h", "r", "e", "a", "t",
  "s">>
TXT_SkillMail ==
  <<"S", "k", "i", "l", "l", " ", "i", "n", " ", "r", "e", "c", "o", "g",
  "n", "i", "z", "i", "n", "g", " ", "m", "a", "l", "i", "c", "i", "o", "u",
  "s", " ", "e", "m", "a", "i", "l", " ", "a", "t", "t", "a", "c", "h", "m",
  "e", "n", "t">>
TXT_Login ==
  <<"I", "d", "e", "n", "t", "i", "f", "y", " ", "a", "n", "o", "m", "a",
  "l", "o", "u", "s", " ", "l", "o", "g", "i", "n">>
TXT_Vague ==
  <<"D", "o", " ", "i", "t">>
TXT_Fenced ==
  <<"P", "a", "s", "t", "e", " ", Backtick, Backtick, Backtick, "j", "s",
  "o", "n", " ", "o", "r", " ", Backtick, Backtick, Backtick, " ", "h", "e",
  "r", "e">>

\* Feedback texts a verdict may carry.
TXT_FixIds ==
  <<"F", "i", "x", " ", "t", "h", "e", " ", "i", "n", "v", "a", "l", "i",
  "d", " ", "i", "d", "s">>

\* User inputs (src/main.py:641) and keyword responses (src/main.py:286).
IN_Phish ==
  <<"s", "o", "m", "e", "o", "n", "e", " ", "s", "e", "n", "t", " ", "a",
  " ", "f", "a", "k", "e", " ", "l", "o", "g", "i", "n", " ", "p", "a", "g",
  "e", " ", "l", "i", "n", "k", " ", "v", "i", "a", " ", "e", "m", "a", "i",
  "l">>
IN_Short ==
  <<"h", "a", "c", "k", ",", " ", "i", "t", ".">>
KW_Phish ==
  <<"P", "h", "i", "s", "h", "i", "n", "g", ",", " ", "f", "a", "k", "e",
  " ", "l", "o", "g", "i", "n", ",", " ", "e", "m", "a", "i", "l">>
KW_Exploit ==
  <<"E", "x", "p", "l", "o", "i", "t", ",", " ", "e", "x", "p", "o", "s",
  "e", "d", " ", "h", "o", "s", "t", ",", " ", "E", "x", "p", "l", "o", "i",
  "t">>

\* Further ids and texts of drafts.
ID_T9999_001 ==
  <<"T", "9", "9", "9", "9", ".", "0", "0", "1">>
ID_K0002 ==
  <<"K", "0", "0", "0", "2">>
ID_A0001 ==
  <<"A", "0", "0", "0", "1">>
TXT_AbilityLogin ==
  <<"A", "b", "i", "l", "i", "t", "y", " ", "t", "o", " ", "i", "d", "e",
  "n", "t", "i", "f", "y", " ", "a", "n", "o", "m", "a", "l", "o", "u", "s",
  " ", "l", "o", "g", "i", "n">>

\* Names, description and url prefix of generated MITRE entries.
N_PhishingEmail ==
  <<"P", "h", "i", "s", "h", "i", "n", "g", " ", "e", "m", "a", "i", "l">>
N_CredentialLogin ==
  <<"C", "r", "e", "d", "e", "n", "t", "i", "a", "l", " ", "l", "o", "g",
  "i", "n">>
D_Lure ==
  <<"A", " ", "l", "u", "r", "e">>
U_Techniques ==
  <<"h", "t", "t", "p", "s", ":", "/", "/", "a", "t", "t", "a", "c", "k",
  ".", "m", "i", "t", "r", "e", ".", "o", "r", "g", "/", "t", "e", "c", "h",
  "n", "i", "q", "u", "e", "s", "/">>
Digits ==
  <<"0", "1", "2", "3", "4", "5", "6", "7", "8", "9">>

\* Query tokens.
W_phishing ==
  <<"p", "h", "i", "s", "h", "i", "n", "g">>
W_Email ==
  <<"E", "m", "a", "i", "l">>
W_login ==
  <<"l", "o", "g", "i", "n">>
W_with ==
  <<"w", "i", "t", "h">>

----------------------------------------------------------------------------
(* Python values. *)

\* None
None == [none |-> TRUE]

\* {}
EmptyDict == [k \in {} |-> None]

IsNone(v) == DOMAIN v = {"none"}
IsStr(v) == DOMAIN v = {"str"}
IsArr(v) == DOMAIN v = {"arr"}
IsNum(v) == DOMAIN v = {"num"}
IsDict(v) == ~IsNone(v) /\ ~IsStr(v) /\ ~IsArr(v) /\ ~IsNum(v)

\* bool(v)
Truthy(v) ==
  IF IsNone(v) THEN FALSE
  ELSE IF IsStr(v) THEN v.str # <<>>
  ELSE IF IsArr(v) THEN v.arr # <<>>
  ELSE IF IsNum(v) THEN v.num # 0
  ELSE DOMAIN v # {}

\* d.get(k, default)
Get(d, k, default) == IF k \in DOMAIN d THEN d[k] ELSE default

\* d[k] = v
DictSet(d, k, v) == Dict([x \in DOMAIN d \cup {k} |-> IF x = k THEN v ELSE d[x]])

\* An exception that leaves the function.
Raised == [raise |-> TRUE]
IsRaised(v) == DOMAIN v = {"raise"}

----------------------------------------------------------------------------
(* State. *)

VARIABLES
  mitre_data,    \* AuditorAgent.mitre_data (src/main.py:152, 195)
  nice_data,     \* AuditorAgent.nice_data (src/main.py:153, 207)
  pc,            \* where run stands: Idle, Drafting, Verifying, Passed,
                 \* Exhausted, Aborted (an exception left run); Direct when
                 \* methods are called one by one
  user_input,    \* run's argument
  focus,         \* run's local focus (src/main.py:515)
  i,             \* the loop index of run (src/main.py:520)
  feedback,      \* run's local feedback (src/main.py:517, 528, 537)
  draft,         \* run's local draft (src/main.py:524-525)
  audit,         \* run's local audit (src/main.py:533)
  final_output,  \* run's local final_output (src/main.py:518, 542, 550)
  report,        \* what _print_report printed for this run (src/main.py:552)
  hist,          \* observations of the current run, read by the properties only
  call           \* a direct call of one method: its arguments, what it
                 \* computed on the way and what it returned

vars ==
  <<mitre_data, nice_data, pc, user_input, focus, i, feedback, draft,
    audit, final_output, report, hist, call>>

----------------------------------------------------------------------------
(* The knowledge base: data/mitre_simple.json and data/nice_simple.json as *)
(* src/simplify_mitre.py and src/simplify_nice.py write them, sorted by id. *)

MitreKB ==
  << [id |-> ID_T1190, name |-> N_T1190, description |-> D_T1190, url |-> U_T1190],
     [id |-> ID_T1566, name |-> N_T1566, description |-> D_T1566, url |-> U_T1566],
     [id |-> ID_T1566_001, name |-> N_T1566_001, description |-> D_T1566_001,
      url |-> U_T1566_001] >>

NiceKB ==
  << [id |-> ID_K1014, type |-> TY_Knowledge, description |-> D_K1014],
     [id |-> ID_S0544, type |-> TY_Skill, description |-> D_S0544],
     [id |-> ID_T1084, type |-> TY_Task, description |-> D_T1084] >>

\* _load_knowledge_base: a table whose file is missing or unreadable stays [];
\* the two files are present together or missing together.
load_knowledge_base ==
  \/ mitre_data = MitreKB /\ nice_data = NiceKB
  \/ mitre_data = <<>> /\ nice_data = <<>>

----------------------------------------------------------------------------
(* AuditorAgent._search_knowledge_base *)

\* len(t) > 3 (src/main.py:222, 298, 414)
MinTermLen == 3

\* [:20] (src/main.py:252-253)
TopN == 20

\* terms = [t.lower() for t in query_terms
\*          if t.lower() not in stop_words and len(t) > 3]
search_terms_of(query_terms) ==
  LET kept == SelectSeq(query_terms,
                        LAMBDA t : lower(t) \notin STOP /\ Len(t) > MinTermLen)
  IN List([k \in DOMAIN kept |-> lower(kept[k])])

\* content of an entry (src/main.py:233)
content_of(item) ==
  lower(Get(item, "name", <<>>) \o <<" ">> \o Get(item, "description", <<>>)
        \o <<" ">> \o Get(item, "type", <<>>))

\* score = sum(1 for term in terms if term in content)
score_of(item, terms) ==
  Cardinality({k \in DOMAIN terms : Contains(content_of(item), terms[k])})

\* A faulty tagging: the source tag is written on the entry of the table.
tag_in_place(item, source_name) ==
  [kept |-> DictSet(item, "_source", source_name),
   copy |-> DictSet(item, "_source", source_name)]

\* item_copy = item.copy(); item_copy['_source'] = source_name
\* (src/main.py:237-238): the entry as it stays in the table, and the copy.
tag_copy(item, source_name) ==
  [kept |-> item, copy |-> DictSet(item, "_source", source_name)]

\* search_dataset: the (score, tagged copy) pairs of the entries that score.
search_dataset(dataset, source_name, terms) ==
  LET scored == List([k \in DOMAIN dataset |->
                        [score |-> score_of(dataset[k], terms),
                         item |-> tag_copy(dataset[k], source_name).copy]])
  IN SelectSeq(scored, LAMBDA r : r.score > 0)

\* The table as search_dataset leaves it.
dataset_after_search(dataset, source_name, terms) ==
  List([k \in DOMAIN dataset |->
          IF score_of(dataset[k], terms) > 0
          THEN tag_copy(dataset[k], source_name).kept
          ELSE dataset[k]])

\* list.sort(key=lambda x: x[0], reverse=True): by score, descending; entries
\* of equal score keep their order.
RECURSIVE sort_by_score(_)
sort_by_score(results) ==
  IF results = <<>> THEN <<>>
  ELSE LET k == CHOOSE a \in DOMAIN results :
                  /\ \A b \in DOMAIN results : results[b].score <= results[a].score
                  /\ \A b \in 1..(a - 1) : results[b].score < results[a].score
       IN <<results[k]>>
            \o sort_by_score(SubSeq(results, 1, k - 1)
                             \o SubSeq(results, k + 1, Len(results)))

\* A faulty cut: every entry that scores is returned.
top_items_uncut(results) ==
  List([k \in DOMAIN results |-> results[k].item])

\* [r[1] for r in results[:20]]
top_items(results) ==
  LET top == Prefix(results, TopN) IN List([k \in DOMAIN top |-> top[k].item])

\* mitre and nice are self.mitre_data and self.nice_data.
search_knowledge_base(mitre, nice, query_terms) ==
  IF mitre = <<>> /\ nice = <<>> THEN <<>>
  ELSE LET terms == search_terms_of(query_terms) IN
       IF terms = <<>> THEN <<>>
       ELSE top_items(sort_by_score(search_dataset(mitre, SRC_MITRE, terms)))
            \o top_items(sort_by_score(search_dataset(nice, SRC_NICE, terms)))

\* The two tables as _search_knowledge_base leaves them.
tables_after_search(mitre, nice, query_terms) ==
  IF mitre = <<>> /\ nice = <<>> THEN <<mitre, nice>>
  ELSE LET terms == search_terms_of(query_terms) IN
       IF terms = <<>> THEN <<mitre, nice>>
       ELSE <<dataset_after_search(mitre, SRC_MITRE, terms),
              dataset_after_search(nice, SRC_NICE, terms)>>

----------------------------------------------------------------------------
(* What the generation capability may answer.  A call raises ([fault]) or  *)
(* returns a text: prose that is no JSON ([prose]), or the JSON text of a  *)
(* value, bare or wrapped in a ```json ... ``` fence ([fenced, json]).     *)

Fault == [fault |-> TRUE]
Prose == [prose |-> TRUE]
IsFault(resp) == DOMAIN resp = {"fault"}
IsProse(resp) == DOMAIN resp = {"prose"}

JsonTexts(values) == [fenced : BOOLEAN, json : values]

\* [] as a JSON value
EmptyList == [arr |-> <<>>]

MitreKey == "mitre_attack"
NiceKeys == <<"knowledge", "skills", "abilities", "tasks">>
SectionKeys == <<MitreKey>> \o NiceKeys

\* Items a draft may list.
M_T1566 == [id |-> ID_T1566, name |-> N_T1566]
M_T9999 == [id |-> ID_T9999, name |-> TXT_ExploitApp]
K_K1014 == [id |-> ID_K1014, description |-> TXT_KnowPhish]
K_K0001 == [id |-> ID_K0001, description |-> TXT_KnowPhish]
S_S0544 == [id |-> ID_S0544, description |-> TXT_SkillMail]
T_T0021 == [id |-> ID_T0021, description |-> TXT_Login]
NoIdItem == [description |-> TXT_Vague]
T_T9999_001 == [id |-> ID_T9999_001, description |-> TXT_SkillMail]
K_K0002 == [id |-> ID_K0002, description |-> TXT_ExploitApp]
A_A0001 == [id |-> ID_A0001, description |-> TXT_AbilityLogin]
T_T9999 == [id |-> ID_T9999, description |-> TXT_Login]
T_T1566 == [id |-> ID_T1566, description |-> TXT_Login]

\* JSON values a draft response may hold.
DraftGrounded ==
  [refined_text |-> TXT_Summary, mitre_attack |-> [arr |-> <<M_T1566>>],
   knowledge |-> [arr |-> <<K_K1014>>], skills |-> [arr |-> <<S_S0544>>],
   abilities |-> EmptyList, tasks |-> EmptyList, justification |-> TXT_Why]

DraftHallucinated ==
  [refined_text |-> TXT_Summary, mitre_attack |-> [arr |-> <<M_T9999>>],
   knowledge |-> [arr |-> <<K_K0001>>], skills |-> EmptyList,
   abilities |-> EmptyList, tasks |-> [arr |-> <<T_T0021, NoIdItem>>],
   justification |-> TXT_Why]

\* A draft whose invalid ids cover the ways the source is inferred.
DraftRootCause ==
  [refined_text |-> TXT_Summary, mitre_attack |-> [arr |-> <<M_T9999>>],
   knowledge |-> [arr |-> <<K_K0002, K_K0001>>], skills |-> EmptyList,
   abilities |-> [arr |-> <<A_A0001>>],
   tasks |-> [arr |-> <<T_T9999_001, T_T0021, T_T9999, T_T1566>>],
   justification |-> TXT_Why]

\* A draft whose text field holds fence markers.
DraftFenced ==
  [refined_text |-> TXT_Fenced, mitre_attack |-> [arr |-> <<M_T1566>>],
   knowledge |-> EmptyList, skills |-> EmptyList, abilities |-> EmptyList,
   tasks |-> EmptyList, justification |-> TXT_Why]

DraftScalarSection ==
  [mitre_attack |-> [num |-> 5], knowledge |-> [arr |-> <<K_K1014>>]]

DraftScalarItem ==
  [mitre_attack |-> [arr |-> <<M_T1566>>], tasks |-> [arr |-> <<[num |-> 7]>>]]

DraftList == [arr |-> <<[num |-> 1]>>]

DraftValues ==
  {DraftGrounded, DraftHallucinated, EmptyDict, DraftScalarSection,
   DraftScalarItem, DraftList, EmptyList}

DraftResponses == {Fault, Prose} \cup JsonTexts(DraftValues)

----------------------------------------------------------------------------
(* HunterAgent *)

\* text.replace("```json", "").replace("```", "") on one string of the JSON
\* text.  The markers hold no JSON syntax character, so what the two replace
\* calls remove from the whole text is the fence around it and the markers
\* inside its strings.
strip_fences(s) == replace(replace(s, FenceJson, <<>>), Fence, <<>>)

clean_item(item) ==
  IF IsNum(item) THEN item
  ELSE Dict([k \in DOMAIN item |-> strip_fences(item[k])])

clean_list(v) == [arr |-> List([k \in DOMAIN v.arr |-> clean_item(v.arr[k])])]

\* json.loads of the cleaned text of a draft.
loads_draft(json) ==
  IF IsArr(json) THEN clean_list(json)
  ELSE Dict([k \in DOMAIN json |->
               IF k \in Range(SectionKeys)
               THEN (IF IsArr(json[k]) THEN clean_list(json[k]) ELSE json[k])
               ELSE strip_fences(json[k])])

\* HunterAgent._clean_json: {} on JSONDecodeError.
clean_json(text) == IF IsProse(text) THEN EmptyDict ELSE loads_draft(text.json)

\* HunterAgent.generate_draft.  str.replace("__FEEDBACK__", safe_feedback)
\* raises TypeError, outside the try, when the feedback is truthy and no str.
generate_draft(input, fb, resp) ==
  IF Truthy(fb) /\ ~IsStr(fb) THEN Raised
  ELSE IF IsFault(resp) THEN EmptyDict
  ELSE clean_json(resp)

----------------------------------------------------------------------------
(* AuditorAgent._generate_search_terms *)

KeywordResponses == {Fault, [text |-> KW_Phish]}

\* A faulty fallback: a failed keyword request leaves no search terms.
no_fallback_terms(input) == <<>>

\* The fallback of the except branch (src/main.py:305).
naive_terms(input) ==
  split(replace(replace(input, <<",">>, <<" ">>), <<".">>, <<" ">>))

\* The try branch (src/main.py:288-301).  list(set(...)) leaves the order of
\* the terms open; _search_knowledge_base counts matches and does not read
\* the order, so the terms are listed in sorted order here.
smart_terms(text) ==
  LET raw_terms == splitComma(text)
      words == Flatten([k \in DOMAIN raw_terms |-> split(strip(raw_terms[k]))])
  IN sorted({w \in Range(words) : Len(w) > MinTermLen})

generate_search_terms(input, resp) ==
  IF IsFault(resp) THEN naive_terms(input) ELSE smart_terms(resp.text)

----------------------------------------------------------------------------
(* AuditorAgent.verify, steps 1 and 2: the ids of the draft and their      *)
(* lookup (src/main.py:310-345, 363-364).                                  *)

\* key in draft_json.  A JSON array of the model holds no str, so no key is
\* "in" it.
has_key(draft_json, key) == IsDict(draft_json) /\ key \in DOMAIN draft_json

\* The loops over a section raise TypeError when the section is a number
\* (not iterable) or holds a number ('id' in item).
section_raises(section) ==
  \/ IsNum(section)
  \/ \E k \in DOMAIN section.arr : IsNum(section.arr[k])

extract_raises(draft_json) ==
  \E k \in DOMAIN SectionKeys :
     has_key(draft_json, SectionKeys[k]) /\ section_raises(draft_json[SectionKeys[k]])

\* The items of a section that is present.
items_of(draft_json, key) ==
  IF has_key(draft_json, key) THEN draft_json[key].arr ELSE <<>>

\* The items of all sections, in the order the code reads the sections.
all_items(draft_json) ==
  Flatten([k \in DOMAIN SectionKeys |-> items_of(draft_json, SectionKeys[k])])

\* ids = sorted(list(set(ids)))
extract_ids(draft_json) ==
  sorted({it.id : it \in {x \in Range(all_items(draft_json)) : "id" \in DOMAIN x}})

\* A faulty lookup: only the MITRE table is searched.
found_items_mitre_only(mitre, nice, ids) ==
  SelectSeq(mitre, LAMBDA item : item.id \in Range(ids))

\* found_items: the MITRE entries, then the NICE entries, whose id is drafted.
found_items(mitre, nice, ids) ==
  SelectSeq(mitre, LAMBDA item : item.id \in Range(ids))
  \o SelectSeq(nice, LAMBDA item : item.id \in Range(ids))

found_ids(mitre, nice, ids) == {item.id : item \in Range(found_items(mitre, nice, ids))}

invalid_ids(mitre, nice, ids) ==
  SelectSeq(ids, LAMBDA uid : uid \notin found_ids(mitre, nice, ids))

----------------------------------------------------------------------------
(* AuditorAgent.verify, step C: the targeted search for every invalid id   *)
(* (src/main.py:366-430).                                                  *)

\* desc[:30] and description[:50] of a suggestion (src/main.py:430, 485)
DescPrefix == 30
MatchPrefix == 50

\* get_draft_description
get_draft_description(draft_json, target_id) ==
  LET hits == SelectSeq(all_items(draft_json),
                        LAMBDA item : "id" \in DOMAIN item /\ item.id = target_id)
  IN IF hits = <<>> THEN <<>>
     ELSE Get(hits[1], "description", Get(hits[1], "name", <<>>))

in_mitre(draft_json, uid) ==
  \E item \in Range(items_of(draft_json, MitreKey)) :
     "id" \in DOMAIN item /\ item.id = uid

\* A faulty inference: every invalid id is taken for a NICE id.
target_source_nice(draft_json, uid) == SRC_NICE

\* The source an invalid id is taken to belong to (src/main.py:382-410).
target_source(draft_json, uid) ==
  IF \E p \in {<<"K">>, <<"S">>, <<"A">>} : startswith(uid, p) THEN SRC_NICE
  ELSE IF startswith(uid, <<"T">>)
       THEN (IF Contains(uid, <<".">>) THEN SRC_MITRE
             ELSE IF in_mitre(draft_json, uid) THEN SRC_MITRE ELSE SRC_NICE)
  ELSE IF in_mitre(draft_json, uid) THEN SRC_MITRE ELSE SRC_NICE

\* clean_desc (src/main.py:413-414)
clean_desc(desc) ==
  SelectSeq(split(replace(replace(replace(desc, S_KnowledgeOf, <<>>),
                                  S_SkillIn, <<>>), S_AbilityTo, <<>>)),
            LAMBDA w : Len(w) > MinTermLen)

\* A faulty suggestion: the invalid id itself is proposed.
suggestion_echo(mitre, nice, draft_json, uid) ==
  LET desc == get_draft_description(draft_json, uid)
  IN IF desc = <<>> THEN <<>>
     ELSE << [invalid |-> uid, said |-> Prefix(desc, DescPrefix),
              consider |-> uid, about |-> Prefix(desc, MatchPrefix)] >>

\* The suggestion for one invalid id: a sequence of no or one line.
suggestion_for(mitre, nice, draft_json, uid) ==
  LET desc == get_draft_description(draft_json, uid)
      matches == search_knowledge_base(mitre, nice, clean_desc(desc))
      filtered_matches ==
        SelectSeq(matches, LAMBDA m : m["_source"] = target_source(draft_json, uid))
  IN IF desc = <<>> \/ filtered_matches = <<>> THEN <<>>
     ELSE << [invalid |-> uid, said |-> Prefix(desc, DescPrefix),
              consider |-> filtered_matches[1].id,
              about |-> Prefix(Get(filtered_matches[1], "description", <<>>),
                               MatchPrefix)] >>

invalid_id_suggestions(mitre, nice, draft_json) ==
  LET uids == invalid_ids(mitre, nice, extract_ids(draft_json))
  IN Flatten([k \in DOMAIN uids |-> suggestion_for(mitre, nice, draft_json, uids[k])])

----------------------------------------------------------------------------
(* AuditorAgent.verify, step 3: the verdict request and the suggestions     *)
(* appended to a FAIL verdict (src/main.py:467-495).                        *)
(* A feedback str is the sequence of its lines: [text |-> s] for a line of  *)
(* text, and the records of general_hints and suggestion_for for the lines  *)
(* the two f-strings format.  "" has no line.                               *)

\* alternatives[:4] (src/main.py:484)
MaxGeneral == 4

Text(s) == [str |-> <<[text |-> s]>>]
NoText == [str |-> <<>>]

\* Verdicts a verdict response may hold.
VerdictValues ==
  { [status |-> [str |-> S_PASS], feedback |-> NoText],
    [status |-> [str |-> S_FAIL], feedback |-> Text(TXT_FixIds)],
    [status |-> [str |-> S_pass], feedback |-> NoText],
    [feedback |-> Text(TXT_FixIds)],
    [status |-> [str |-> S_FAIL]],
    [status |-> [num |-> 1], feedback |-> Text(TXT_FixIds)],
    [status |-> [str |-> S_FAIL], feedback |-> [num |-> 1]],
    EmptyList }

VerdictResponses == {Fault, Prose} \cup JsonTexts(VerdictValues)

\* A faulty except branch: an internal error of the verdict request passes.
auditor_passes == [status |-> [str |-> S_PASS], feedback |-> NoText]

\* The except branch (src/main.py:493-495).
auditor_crashed == [status |-> [str |-> S_FAIL], feedback |-> Text(S_AuditorCrashed)]

\* The feedback of a parsed verdict: its text without fence markers.
clean_feedback(v) ==
  IF IsStr(v)
  THEN [str |-> List([k \in DOMAIN v.str |->
                        [text |-> strip_fences(v.str[k].text)]])]
  ELSE v

\* json.loads of the cleaned text of a verdict (src/main.py:470).
loads_verdict(json) ==
  IF IsArr(json) THEN json
  ELSE Dict([k \in DOMAIN json |->
               IF k = "status" /\ IsStr(json[k])
               THEN [str |-> strip_fences(json[k].str)]
               ELSE clean_feedback(json[k])])

\* A faulty hint list: one hint for every alternative.
general_hints_uncut(alternatives) ==
  List([k \in DOMAIN alternatives |->
          [general |-> alternatives[k].id,
           about |-> Prefix(Get(alternatives[k], "name",
                                Get(alternatives[k], "description", <<>>)),
                            MatchPrefix)]])

\* The hints for alternatives[:4] (src/main.py:482-485).
general_hints(alternatives) ==
  LET top == Prefix(alternatives, MaxGeneral)
  IN List([k \in DOMAIN top |->
             [general |-> top[k].id,
              about |-> Prefix(Get(top[k], "name", Get(top[k], "description", <<>>)),
                               MatchPrefix)]])

\* The body of the try once the response is parsed (src/main.py:474-492).
\* result.get raises AttributeError when result is no dict; += raises
\* KeyError when feedback is missing and TypeError when it is a number.
audited(result, invalid_suggestions, alternatives) ==
  IF ~IsDict(result) THEN Raised
  ELSE IF Get(result, "status", None) = [str |-> S_FAIL]
  THEN LET suggestions == invalid_suggestions \o general_hints(alternatives)
       IN IF suggestions = <<>> THEN result
          ELSE IF "feedback" \notin DOMAIN result THEN Raised
          ELSE IF ~IsStr(result.feedback) THEN Raised
          ELSE DictSet(result, "feedback",
                       [str |-> result.feedback.str
                                \o <<[text |-> S_SuggestionsHeader]>>
                                \o suggestions])
  ELSE result

\* The try/except around the verdict request.
verdict_of(resp, invalid_suggestions, alternatives) ==
  IF IsFault(resp) \/ IsProse(resp) THEN auditor_crashed
  ELSE LET result == audited(loads_verdict(resp.json), invalid_suggestions,
                             alternatives)
       IN IF IsRaised(result) THEN auditor_crashed ELSE result

----------------------------------------------------------------------------
(* DeepResearchSystem *)

Focuses == {"mitre", "ksa", "both"}

\* What the user may type at the prompt (src/main.py:641).
UserInputs == {IN_Phish, IN_Short}

\* A faulty corrective: the empty draft leaves no instruction behind.
no_corrective == NoText

\* src/main.py:528
invalid_json_feedback == Text(S_InvalidJson)

\* A faulty filter: the draft goes on as drafted.
no_focus_constraints(d, f) == d

\* A faulty filter: a focus other than both clears every reference list.
clear_every_section(d, f) ==
  IF ~Truthy(d) \/ f \notin {"mitre", "ksa"} THEN d
  ELSE IF ~IsDict(d) THEN Raised
  ELSE Dict([k \in DOMAIN d \cup Range(SectionKeys) |->
               IF k \in Range(SectionKeys) THEN EmptyList ELSE d[k]])

\* DeepResearchSystem._apply_focus_constraints.  draft[section] = [] raises
\* TypeError on a JSON array.
apply_focus_constraints(d, f) ==
  IF ~Truthy(d) THEN d
  ELSE IF f = "mitre"
       THEN (IF IsDict(d)
             THEN Dict([k \in DOMAIN d \cup Range(NiceKeys) |->
                          IF k \in Range(NiceKeys) THEN EmptyList ELSE d[k]])
             ELSE Raised)
  ELSE IF f = "ksa"
       THEN (IF IsDict(d) THEN DictSet(d, MitreKey, EmptyList) ELSE Raised)
  ELSE d

\* str(None), what an f-string prints for a missing field.
S_NoneText == <<"N", "o", "n", "e">>

\* The lines _print_report prints for one section.
printed_section(data, key, field) ==
  LET items == IF key \in DOMAIN data THEN data[key].arr ELSE <<>>
  IN List([k \in DOMAIN items |->
             [id |-> Get(items[k], "id", S_NoneText),
              text |-> Get(items[k], field, S_NoneText)]])

\* DeepResearchSystem._print_report: None when nothing is printed, Raised
\* when data.get or m.get raises AttributeError or a section cannot be
\* iterated.
print_report(data) ==
  IF ~Truthy(data) THEN None
  ELSE IF ~IsDict(data) THEN Raised
  ELSE IF \E key \in Range(SectionKeys) \cup {"nice_framework"} :
             key \in DOMAIN data /\ section_raises(data[key])
       THEN Raised
  ELSE [mitre_attack |-> printed_section(data, MitreKey, "name"),
        knowledge |-> printed_section(data, "knowledge", "description"),
        skills |-> printed_section(data, "skills", "description"),
        abilities |-> printed_section(data, "abilities", "description"),
        tasks |-> printed_section(data, "tasks", "description"),
        nice_framework |-> printed_section(data, "nice_framework", "name"),
        justification |-> Get(data, "justification", <<>>)]

\* A faulty loop bound: one iteration more.
has_next_off_by_one(k) == k <= MAX_LOOPS

\* A faulty loop: no iteration follows the first.
has_next_never(k) == FALSE

\* for i in range(1, MAX_LOOPS + 1): whether an iteration follows iteration k.
has_next(k) == k < MAX_LOOPS

\* A faulty fallback: the last draft is not taken.
keep_final(final, d) == final

\* if not final_output: final_output = draft (src/main.py:548-550)
best_effort(final, d) == IF ~Truthy(final) THEN d ELSE final

\* status = audit.get("status", "FAIL").upper(): Raised (AttributeError) when
\* the status is no str.
status_of(verdict) ==
  LET st == Get(verdict, "status", [str |-> S_FAIL])
  IN IF IsStr(st) THEN [str |-> upper(st.str)] ELSE Raised

\* A faulty threading: the verdict's feedback is not taken over.
feedback_dropped(verdict) == NoText

\* feedback = audit.get("feedback", "")
feedback_of(verdict) == Get(verdict, "feedback", NoText)

\* A faulty decision: the loop is left on FAIL.
is_fail(status) == status = [str |-> S_FAIL]

\* if status == "PASS"
is_pass(status) == status = [str |-> S_PASS]

----------------------------------------------------------------------------
(* Direct calls of single methods, as a test of the class makes them: the   *)
(* tables, arguments and responses such a call is made with.                *)

\* The number of entries of the larger MITRE table: more than _search_knowledge_base
\* keeps of one table.
ManyCount == 22

\* An entry as src/simplify_mitre.py writes it; e counts from 0.
many_entry(e) ==
  LET tid == <<"T", "3", "0">> \o <<Digits[(e \div 10) + 1], Digits[(e % 10) + 1]>>
  IN [id |-> tid,
      name |-> IF e % 3 = 0 THEN N_PhishingEmail
               ELSE IF e % 3 = 1 THEN N_T1566 ELSE N_CredentialLogin,
      description |-> D_Lure,
      url |-> U_Techniques \o tid]

ManyMitre == List([e \in 1..ManyCount |-> many_entry(e - 1)])

DirectKnowledgeBases ==
  {<<MitreKB, NiceKB>>, <<ManyMitre, NiceKB>>, << <<>>, <<>> >>}

\* The longest token list a direct search is made with.
MaxQueryLen == 3

QueryWords == {W_phishing, W_Email, W_login, W_with}

\* query_terms of a direct search
DirectQueries == UNION {[1..len -> QueryWords] : len \in 0..MaxQueryLen}

\* draft_json of a direct verify
DirectDrafts ==
  {loads_draft(v) : v \in {DraftGrounded, DraftHallucinated, DraftRootCause}}

\* text of a direct _clean_json
DirectTexts == {Prose} \cup JsonTexts({DraftGrounded, DraftFenced, EmptyDict})

\* draft and focus of a direct _apply_focus_constraints
DirectCandidates ==
  {loads_draft(v) : v \in DraftValues \cup {DraftRootCause}} \cup {EmptyDict}

DirectFocuses == Focuses \cup {"all"}

\* Answers to the keyword request of a direct verify.
DirectKeywordResponses == {Fault, [text |-> KW_Phish], [text |-> KW_Exploit]}

----------------------------------------------------------------------------
(* AuditorAgent.verify as a whole.  Its two searches are functions of the   *)
(* tables, the draft, the input and the keyword answer alone; they are      *)
(* tabulated over the values the model draws, so that each is computed once.*)

KnowledgeBases == {<<MitreKB, NiceKB>>, << <<>>, <<>> >>}

\* The drafts run can hand to verify, and that verify reads to the end.
VerifiableDrafts ==
  {d \in {apply_focus_constraints(loads_draft(v), f) : v \in DraftValues, f \in Focuses} :
     ~IsRaised(d) /\ Truthy(d) /\ ~extract_raises(d)}

\* alternatives (src/main.py:349-350)
AlternativesTable ==
  Dict([kb \in KnowledgeBases \cup DirectKnowledgeBases, input \in UserInputs,
        kw \in KeywordResponses \cup DirectKeywordResponses |->
          search_knowledge_base(kb[1], kb[2], generate_search_terms(input, kw))])

\* invalid_id_suggestions (src/main.py:360-430)
SuggestionsTable ==
  Dict([kb \in KnowledgeBases \cup DirectKnowledgeBases,
        d \in VerifiableDrafts \cup DirectDrafts |->
          invalid_id_suggestions(kb[1], kb[2], d)])

\* AuditorAgent.verify: the dict it returns, or Raised when an exception
\* leaves it.  kw is the answer to the keyword request, resp the answer to
\* the verdict request.
verify(mitre, nice, original_input, draft_json, kw, resp) ==
  IF extract_raises(draft_json) THEN Raised
  ELSE verdict_of(resp, SuggestionsTable[<<mitre, nice>>, draft_json],
                  AlternativesTable[<<mitre, nice>>, original_input, kw])

\* The two tables after the targeted searches for uids (src/main.py:378-417).
RECURSIVE tables_after_root_cause(_, _, _, _)
tables_after_root_cause(mitre, nice, draft_json, uids) ==
  IF uids = <<>> THEN <<mitre, nice>>
  ELSE LET desc == get_draft_description(draft_json, Head(uids))
           after == IF desc = <<>> THEN <<mitre, nice>>
                    ELSE tables_after_search(mitre, nice, clean_desc(desc))
       IN tables_after_root_cause(after[1], after[2], draft_json, Tail(uids))

\* The two tables after verify's searches (src/main.py:350, 417).
TablesAfterVerify ==
  Dict([kb \in KnowledgeBases \cup DirectKnowledgeBases, input \in UserInputs,
        kw \in KeywordResponses \cup DirectKeywordResponses,
        d \in VerifiableDrafts \cup DirectDrafts |->
          LET after == tables_after_search(kb[1], kb[2],
                                           generate_search_terms(input, kw))
          IN tables_after_root_cause(after[1], after[2], d,
                                     invalid_ids(kb[1], kb[2], extract_ids(d)))])

\* self.mitre_data and self.nice_data as verify leaves them.
tables_after_verify(mitre, nice, original_input, draft_json, kw) ==
  IF extract_raises(draft_json) THEN <<mitre, nice>>
  ELSE TablesAfterVerify[<<mitre, nice>>, original_input, kw, draft_json]

\* What run hands to its caller: the function has no return statement, so it
\* returns None, and it prints the report (src/main.py:552).
run_outcome == [returned |-> None, printed |-> report]

----------------------------------------------------------------------------
(* DeepResearchSystem.run as a state machine.  One step per call of the     *)
(* generation-backed agents: StartRun enters the loop, GenerateDraft is     *)
(* src/main.py:524-530, Verify is src/main.py:533-546; the step that ends   *)
(* the loop also runs src/main.py:548-552.                                  *)

NewHist ==
  [nDraft |-> 0,            \* calls of generate_draft in this run
   nVerify |-> 0,           \* calls of verify in this run
   everNonEmpty |-> FALSE,  \* some attempt of this run drafted a non-empty value
   drafted |-> None,        \* what the latest drafting attempt produced
   handed |-> None,         \* the draft handed to verify in this iteration
   request |-> "none"]      \* how the latest verdict request ended

\* No method is being called directly.
NoCall == [op |-> "none"]

Init ==
  /\ load_knowledge_base
  /\ pc = "Idle"
  /\ user_input = <<>>
  /\ focus = "both"
  /\ i = 0
  /\ feedback = None
  /\ draft = None
  /\ audit = None
  /\ final_output = None
  /\ report = None
  /\ hist = NewHist
  /\ call = NoCall

\* src/main.py:512-520: the main loop calls run, again after run returned.
StartRun(input, f) ==
  /\ pc \in {"Idle", "Passed", "Exhausted"}
  /\ user_input' = input
  /\ focus' = f
  /\ i' = 1
  /\ feedback' = NoText
  /\ final_output' = None
  /\ draft' = None
  /\ audit' = None
  /\ report' = None
  /\ pc' = "Drafting"
  /\ hist' = NewHist
  /\ UNCHANGED <<mitre_data, nice_data, call>>

\* src/main.py:548-552, after a break (outcome Passed) or after the last
\* iteration (outcome Exhausted).
Finish(final, d, outcome) ==
  LET out == best_effort(final, d)
      printed == print_report(out)
  IN /\ final_output' = out
     /\ report' = printed
     /\ pc' = IF IsRaised(printed) THEN "Aborted" ELSE outcome

\* src/main.py:524-530
GenerateDraft(resp) ==
  /\ pc = "Drafting"
  /\ LET raw == generate_draft(user_input, feedback, resp)
         d == IF IsRaised(raw) THEN Raised ELSE apply_focus_constraints(raw, focus)
     IN /\ hist' = [hist EXCEPT !.nDraft = @ + 1,
                                !.drafted = d,
                                !.handed = None,
                                !.everNonEmpty = @ \/ (~IsRaised(d) /\ Truthy(d))]
        /\ IF IsRaised(d)
           THEN /\ pc' = "Aborted"
                /\ draft' = IF IsRaised(raw) THEN draft ELSE raw
                /\ UNCHANGED <<i, feedback, final_output, report>>
           ELSE /\ draft' = d
                /\ IF Truthy(d)
                   THEN /\ pc' = "Verifying"
                        /\ UNCHANGED <<i, feedback, final_output, report>>
                   ELSE /\ feedback' = invalid_json_feedback
                        /\ IF has_next(i)
                           THEN /\ i' = i + 1
                                /\ pc' = "Drafting"
                                /\ UNCHANGED <<final_output, report>>
                           ELSE /\ i' = i
                                /\ Finish(final_output, d, "Exhausted")
  /\ UNCHANGED <<mitre_data, nice_data, user_input, focus, audit, call>>

\* src/main.py:533-546
Verify(kw, resp) ==
  /\ pc = "Verifying"
  /\ LET v == verify(mitre_data, nice_data, user_input, draft, kw, resp)
         st == IF IsRaised(v) THEN Raised ELSE status_of(v)
     IN /\ hist' = [hist EXCEPT !.nVerify = @ + 1,
                                !.handed = draft,
                                !.request = IF IsRaised(v) THEN "none"
                                            ELSE IF IsFault(resp) THEN "fault"
                                            ELSE IF IsProse(resp) THEN "unparseable"
                                            ELSE "parsed"]
        /\ IF IsRaised(v)
           THEN /\ pc' = "Aborted"
                /\ UNCHANGED <<audit, feedback, i, final_output, report>>
           ELSE /\ audit' = v
                /\ IF IsRaised(st)
                   THEN /\ pc' = "Aborted"
                        /\ UNCHANGED <<feedback, i, final_output, report>>
                   ELSE /\ feedback' = feedback_of(v)
                        /\ IF is_pass(st)
                           THEN /\ i' = i
                                /\ Finish(draft, draft, "Passed")
                           ELSE IF has_next(i)
                           THEN /\ i' = i + 1
                                /\ pc' = "Drafting"
                                /\ UNCHANGED <<final_output, report>>
                           ELSE /\ i' = i
                                /\ Finish(final_output, draft, "Exhausted")
  /\ mitre_data' = tables_after_verify(mitre_data, nice_data, user_input, draft, kw)[1]
  /\ nice_data' = tables_after_verify(mitre_data, nice_data, user_input, draft, kw)[2]
  /\ UNCHANGED <<user_input, focus, draft, call>>

DraftStep == \E resp \in DraftResponses : GenerateDraft(resp)

VerifyStep == \E kw \in KeywordResponses, resp \in VerdictResponses : Verify(kw, resp)

Next ==
  \/ \E input \in UserInputs, f \in Focuses : StartRun(input, f)
  \/ DraftStep
  \/ VerifyStep

Spec == Init /\ [][Next]_vars

\* A call of the generation capability returns or raises (it does not block
\* for ever), so a run that is drafting or verifying takes its next step.
FairSpec == Spec /\ WF_vars(DraftStep) /\ WF_vars(VerifyStep)

----------------------------------------------------------------------------
(* Direct calls: one method of a freshly built agent is called with given   *)
(* arguments and returns; run is not involved.                              *)

DirectInit ==
  /\ \E kb \in DirectKnowledgeBases : mitre_data = kb[1] /\ nice_data = kb[2]
  /\ pc = "Direct"
  /\ user_input = <<>>
  /\ focus = "both"
  /\ i = 0
  /\ feedback = None
  /\ draft = None
  /\ audit = None
  /\ final_output = None
  /\ report = None
  /\ hist = NewHist
  /\ call = NoCall

\* AuditorAgent._search_knowledge_base(query_terms)
CallSearch(query_terms) ==
  /\ pc = "Direct" /\ call = NoCall
  /\ call' = [op |-> "search", query_terms |-> query_terms,
              result |-> search_knowledge_base(mitre_data, nice_data, query_terms)]
  /\ mitre_data' = tables_after_search(mitre_data, nice_data, query_terms)[1]
  /\ nice_data' = tables_after_search(mitre_data, nice_data, query_terms)[2]
  /\ UNCHANGED <<pc, user_input, focus, i, feedback, draft, audit, final_output,
                 report, hist>>

\* HunterAgent._clean_json(text)
CallCleanJson(text) ==
  /\ pc = "Direct" /\ call = NoCall
  /\ call' = [op |-> "clean_json", text |-> text, result |-> clean_json(text)]
  /\ UNCHANGED <<mitre_data, nice_data, pc, user_input, focus, i, feedback,
                 draft, audit, final_output, report, hist>>

\* AuditorAgent.verify(original_input, draft_json), with the locals it
\* computes on the way (src/main.py:326, 363, 364, 350, 360).
CallVerify(original_input, draft_json, kw, resp) ==
  /\ pc = "Direct" /\ call = NoCall
  /\ LET ids == extract_ids(draft_json) IN
     call' = [op |-> "verify", original_input |-> original_input,
              draft_json |-> draft_json, kw |-> kw, resp |-> resp,
              ids |-> ids,
              found_ids |-> found_ids(mitre_data, nice_data, ids),
              invalid_ids |-> invalid_ids(mitre_data, nice_data, ids),
              alternatives |->
                AlternativesTable[<<mitre_data, nice_data>>, original_input, kw],
              invalid_id_suggestions |->
                SuggestionsTable[<<mitre_data, nice_data>>, draft_json],
              result |-> verify(mitre_data, nice_data, original_input,
                                draft_json, kw, resp)]
  /\ mitre_data' = tables_after_verify(mitre_data, nice_data, original_input,
                                       draft_json, kw)[1]
  /\ nice_data' = tables_after_verify(mitre_data, nice_data, original_input,
                                      draft_json, kw)[2]
  /\ UNCHANGED <<pc, user_input, focus, i, feedback, draft, audit, final_output,
                 report, hist>>

\* DeepResearchSystem._apply_focus_constraints(draft, focus)
CallApplyFocus(d, f) ==
  /\ pc = "Direct" /\ call = NoCall
  /\ call' = [op |-> "apply_focus_constraints", draft |-> d, focus |-> f,
              result |-> apply_focus_constraints(d, f)]
  /\ UNCHANGED <<mitre_data, nice_data, pc, user_input, focus, i, feedback,
                 draft, audit, final_output, report, hist>>

\* The call returned; the next one is made on the same agent.
Return ==
  /\ pc = "Direct" /\ call # NoCall
  /\ call' = NoCall
  /\ UNCHANGED <<mitre_data, nice_data, pc, user_input, focus, i, feedback,
                 draft, audit, final_output, report, hist>>

DirectNext ==
  \/ \E query_terms \in DirectQueries : CallSearch(query_terms)
  \/ \E text \in DirectTexts : CallCleanJson(text)
  \/ \E d \in DirectCandidates, f \in DirectFocuses : CallApplyFocus(d, f)
  \/ \E original_input \in UserInputs, draft_json \in DirectDrafts,
        kw \in DirectKeywordResponses, resp \in VerdictResponses :
       CallVerify(original_input, draft_json, kw, resp)
  \/ Return

DirectSpec == DirectInit /\ [][DirectNext]_vars

----------------------------------------------------------------------------
(* Properties of run. *)

Terminal == {"Passed", "Exhausted", "Aborted"}

\* The ids of the entries of the two tables.
KbIds == {e.id : e \in Range(mitre_data) \cup Range(nice_data)}

\* data.get(key, []) of a record.
section_of(d, key) == Get(d, key, EmptyList)

\* C1: when run finalises a candidate on a PASS verdict and the tables were
\* loaded non-empty, every id listed in the candidate's sections is the id
\* of an entry of the MITRE or the NICE table.
C1_PassIsGrounded ==
  (pc = "Passed" /\ mitre_data # <<>> /\ nice_data # <<>>)
    => Range(extract_ids(final_output)) \subseteq KbIds

\* C2: a run makes at most MAX_LOOPS calls of generate_draft and at most
\* MAX_LOOPS calls of verify, in at most MAX_LOOPS iterations, and a run
\* that is drafting or verifying reaches a terminal state.
C2_TerminatesWithinBudget ==
  /\ [](hist.nDraft <= MAX_LOOPS /\ hist.nVerify <= MAX_LOOPS /\ i <= MAX_LOOPS)
  /\ (pc \in {"Drafting", "Verifying"}) ~> (pc \in Terminal)

C2_Witness ==
  pc = "Exhausted" /\ hist.nDraft = MAX_LOOPS /\ hist.nVerify = MAX_LOOPS

\* C3: when some drafting attempt of the run produced a non-empty record,
\* the record the run ends with is non-empty.
C3_NonEmptyKept ==
  (pc \in {"Passed", "Exhausted"} /\ hist.everNonEmpty) => Truthy(final_output)

\* C4: the step that ends the run as Passed is a verify call whose verdict
\* is PASS; it makes no generate_draft call, the final record is the
\* focus-filtered candidate that was drafted in this iteration and handed to
\* verify, unaltered; and after Passed no call of this run follows (the only
\* step is the start of another run).
C4_EarlyPass ==
  [][ /\ (pc # "Passed" /\ pc' = "Passed") =>
           /\ pc = "Verifying"
           /\ status_of(audit') = [str |-> S_PASS]
           /\ final_output' = hist'.handed
           /\ hist'.handed = hist.drafted
           /\ final_output' = draft /\ draft' = draft
           /\ hist'.nDraft = hist.nDraft
           /\ hist'.nVerify = hist.nVerify + 1
      /\ pc = "Passed" => (pc' = "Drafting" /\ hist' = NewHist) ]_vars

C4_Witness ==
  pc = "Passed" /\ i < MAX_LOOPS /\ focus = "mitre" /\ final_output = hist.handed

\* C5: a run that used all MAX_LOOPS iterations without a PASS verdict ends
\* with the candidate drafted in the last iteration, after focus filtering.
C5_LastDraftIsBestEffort ==
  pc = "Exhausted" =>
    /\ i = MAX_LOOPS /\ hist.nDraft = MAX_LOOPS
    /\ final_output = hist.drafted
    /\ final_output = draft

C5_Witness ==
  /\ pc = "Exhausted" /\ Truthy(final_output)
  /\ hist.handed = final_output /\ status_of(audit) = [str |-> S_FAIL]

\* What a run that ends on a PASS verdict can hand to its caller.
PassOutcomes ==
  {[returned |-> None, printed |-> print_report(d)] : d \in VerifiableDrafts}

\* C6: the outcome of a finished run tells a record finalised by a PASS
\* verdict from a best-effort record: what an exhausted run hands to its
\* caller is not what a passed run can hand to its caller.
C6_OutcomeTellsPass == pc = "Exhausted" => run_outcome \notin PassOutcomes

\* C7: under focus 'mitre' the candidate handed to verify and the final
\* record have empty knowledge, skills, abilities and tasks sections; under
\* focus 'ksa' they have an empty mitre_attack section.
C7_FocusIsolation ==
  \A d \in {hist.handed, final_output} :
     /\ focus = "mitre" =>
          \A key \in Range(NiceKeys) : section_of(d, key) = EmptyList
     /\ focus = "ksa" => section_of(d, MitreKey) = EmptyList

C7_Witness ==
  /\ focus = "ksa" /\ pc = "Passed"
  /\ "knowledge" \in DOMAIN final_output
  /\ final_output.knowledge # EmptyList
  /\ MitreKey \in DOMAIN final_output

\* C8: when the verdict request of verify raised, or answered a text that
\* is no JSON, the verdict verify returns is FAIL with the feedback
\* "Auditor crashed. Please retry.", and the run did not pass on it.
C8_CrashIsFail ==
  hist.request \in {"fault", "unparseable"} =>
    /\ audit.status = [str |-> S_FAIL]
    /\ audit.feedback = [str |-> <<[text |-> S_AuditorCrashed]>>]
    /\ pc # "Passed"

C8_Witness ==
  hist.request = "unparseable" /\ hist.handed = DraftGrounded /\ pc = "Drafting"

\* C9: no response of the generation capability makes run end with an
\* uncaught exception.
C9_NeverAborts == pc # "Aborted"

\* C10: a drafting attempt that yields an empty record is not followed by a
\* verify call in its iteration, and leaves the strict-JSON corrective as
\* the feedback of the next generate_draft call.
C10_EmptyDraftSkipsVerify ==
  [][ (pc = "Drafting" /\ ~Truthy(draft')) =>
        /\ pc' \in {"Drafting", "Exhausted"}
        /\ hist'.nVerify = hist.nVerify
        /\ hist'.handed = None
        /\ feedback' = [str |-> <<[text |-> S_InvalidJson]>>] ]_vars

C10_Witness ==
  /\ pc = "Drafting" /\ ~Truthy(draft) /\ hist.nDraft > 0
  /\ audit # None /\ feedback_of(audit) # feedback
  /\ feedback = [str |-> <<[text |-> S_InvalidJson]>>]

\* C11: with both tables empty, verify returns no PASS verdict for a
\* candidate that lists an identifier.
C11_EmptyKbNeverPasses ==
  (/\ mitre_data = <<>> /\ nice_data = <<>>
   /\ audit # None
   /\ extract_ids(hist.handed) # <<>>)
    => Get(audit, "status", None) # [str |-> S_PASS]

\* The lines of the feedback a verdict carries.
FeedbackLines(v) ==
  LET fb == Get(v, "feedback", None) IN IF IsStr(fb) THEN fb.str ELSE <<>>

\* The ids of the entries of a table that score highest, above 0, on a
\* description's cleaned tokens.
BestIds(table, desc) ==
  LET terms == search_terms_of(clean_desc(desc))
  IN {e.id : e \in {x \in Range(table) :
                      /\ score_of(x, terms) > 0
                      /\ \A y \in Range(table) : score_of(y, terms) <= score_of(x, terms)}}

\* The table of the source the code infers for an invalid id.
InferredTable(mitre, nice, draft_json, uid) ==
  IF target_source(draft_json, uid) = SRC_MITRE THEN mitre ELSE nice

\* The latest verify returned a verdict on the draft in hist.handed.
Audited ==
  hist.handed # None /\ hist.request # "none" /\ audit # None

\* C12: whenever verify returned, its feedback holds, for every invalid id
\* that has a drafted description and a highest-scoring entry in its inferred
\* source, a suggestion naming such an entry for that id.
C12_SuggestionNamesBest ==
  Audited =>
    \A uid \in Range(invalid_ids(mitre_data, nice_data, extract_ids(hist.handed))) :
       LET desc == get_draft_description(hist.handed, uid)
           best == BestIds(InferredTable(mitre_data, nice_data, hist.handed, uid), desc)
       IN (desc # <<>> /\ best # {}) =>
            \E k \in DOMAIN FeedbackLines(audit) :
               LET line == FeedbackLines(audit)[k]
               IN /\ "consider" \in DOMAIN line
                  /\ line.invalid = uid
                  /\ line.consider \in best

\* C13: a search returns what every search with the same set of tokens
\* returns on the same tables, whatever the order and the repetitions.
C13_SearchDependsOnTokenSet ==
  call.op = "search" =>
    \A other \in DirectQueries :
       Range(other) = Range(call.query_terms) =>
         search_knowledge_base(mitre_data, nice_data, other) = call.result

\* The candidate being verified lists identifiers, and every one of them is
\* the id of an entry of the knowledge base.
GroundedCandidate ==
  /\ pc = "Verifying"
  /\ ~extract_raises(draft)
  /\ extract_ids(draft) # <<>>
  /\ invalid_ids(mitre_data, nice_data, extract_ids(draft)) = <<>>

\* C14: once the drafter produced a candidate all of whose identifiers are in
\* the knowledge base, the run ends Passed.
C14_GroundedRunPasses == GroundedCandidate ~> (pc = "Passed")

\* C15: _clean_json of a record's JSON text wrapped in a code fence returns
\* that record.
C15_FenceRoundTrip ==
  (call.op = "clean_json" /\ ~IsProse(call.text) /\ call.text.fenced)
    => call.result = call.text.json

\* The part of a search result that carries one source tag.
FromSource(result, source_name) ==
  SelectSeq(result, LAMBDA m : m["_source"] = source_name)

\* What C16 expects of one table: hits is the sequence of the tagged entries
\* that score above 0, each at the place its rank gives it (the number of
\* entries that score more, or as much and stand earlier in the table, plus
\* one), up to place TopN.
RankedHits(table, source_name, terms, hits) ==
  LET scores == List([a \in DOMAIN table |-> score_of(table[a], terms)])
      scoring == {a \in DOMAIN table : scores[a] > 0}
      rank(a) == 1 + Cardinality({b \in scoring :
                                    \/ scores[b] > scores[a]
                                    \/ scores[b] = scores[a] /\ b < a})
  IN /\ Len(hits) = (IF Cardinality(scoring) < TopN THEN Cardinality(scoring) ELSE TopN)
     /\ \A a \in scoring :
           rank(a) <= TopN => hits[rank(a)] = DictSet(table[a], "_source", source_name)

\* C16: a search returns the MITRE hits followed by the NICE hits; the hits
\* of a table are its entries that score above 0, by score descending, ties in
\* table order, cut to the first TopN; so at most TopN per source, 2 * TopN in
\* all.
C16_SearchRanksAndCuts ==
  call.op = "search" =>
    LET terms == search_terms_of(call.query_terms)
        fromMitre == FromSource(call.result, SRC_MITRE)
        fromNice == FromSource(call.result, SRC_NICE)
    IN /\ call.result = fromMitre \o fromNice
       /\ RankedHits(mitre_data, SRC_MITRE, terms, fromMitre)
       /\ RankedHits(nice_data, SRC_NICE, terms, fromNice)
       /\ Len(fromMitre) <= TopN /\ Len(fromNice) <= TopN
       /\ Len(call.result) <= 2 * TopN

\* A search that cut the MITRE hits, returned them in another order than the
\* table's, and returned NICE hits as well.
C16_Witness ==
  /\ call.op = "search"
  /\ Len(mitre_data) > TopN
  /\ Len(FromSource(call.result, SRC_MITRE)) = TopN
  /\ \A e \in Range(mitre_data) : score_of(e, search_terms_of(call.query_terms)) > 0
  /\ \E k \in 1..TopN : call.result[k].id # mitre_data[k].id
  /\ FromSource(call.result, SRC_NICE) # <<>>

\* The ids that appear in the reference lists of a candidate.
DraftedIds(draft_json) ==
  UNION {{it.id : it \in {x \in Range(items_of(draft_json, SectionKeys[k])) :
                            "id" \in DOMAIN x}} : k \in DOMAIN SectionKeys}

\* Some entry of the knowledge base has this id.
InKb(uid) ==
  \/ \E e \in Range(mitre_data) : e.id = uid
  \/ \E e \in Range(nice_data) : e.id = uid

\* C17: verify splits the distinct ids of the candidate into found and
\* invalid: the two are disjoint, together they are all ids drafted in any
\* reference list, and an id is invalid exactly when no entry of either table
\* has it.
C17_IdsPartitioned ==
  call.op = "verify" =>
    /\ Cardinality(Range(call.ids)) = Len(call.ids)
    /\ Range(call.ids) = DraftedIds(call.draft_json)
    /\ call.found_ids \cap Range(call.invalid_ids) = {}
    /\ call.found_ids \cup Range(call.invalid_ids) = DraftedIds(call.draft_json)
    /\ \A uid \in DraftedIds(call.draft_json) :
          uid \in Range(call.invalid_ids) <=> ~InKb(uid)

\* A verify of a candidate with found and invalid ids, one id drafted twice,
\* and a MITRE id found although drafted outside mitre_attack.
C17_Witness ==
  /\ call.op = "verify"
  /\ call.found_ids # {}
  /\ call.invalid_ids # <<>>
  /\ \E a, b \in DOMAIN all_items(call.draft_json) :
        /\ a < b
        /\ "id" \in DOMAIN all_items(call.draft_json)[a]
        /\ "id" \in DOMAIN all_items(call.draft_json)[b]
        /\ all_items(call.draft_json)[a].id = all_items(call.draft_json)[b].id
  /\ \E uid \in call.found_ids :
        /\ \E e \in Range(mitre_data) : e.id = uid
        /\ ~in_mitre(call.draft_json, uid)

\* The table C18 names for an invalid id that starts with K, S, A or T.
ExpectedTable(draft_json, uid) ==
  IF uid[1] \in {"K", "S", "A"} THEN nice_data
  ELSE IF "." \in Range(uid) THEN mitre_data
  ELSE IF \E it \in Range(items_of(draft_json, MitreKey)) :
             "id" \in DOMAIN it /\ it.id = uid
       THEN mitre_data
  ELSE nice_data

\* Some entry of the table scores on the cleaned tokens of the description
\* drafted for the id.
HasHit(table, draft_json, uid) ==
  \E e \in Range(table) :
     score_of(e, search_terms_of(clean_desc(get_draft_description(draft_json, uid)))) > 0

\* The suggestions verify recorded for an invalid id.
SuggestionsFor(uid) ==
  {k \in DOMAIN call.invalid_id_suggestions : call.invalid_id_suggestions[k].invalid = uid}

\* C18: for every invalid id that starts with K, S, A or T, the entry proposed
\* is an entry of the table of the inferred source (NICE for K, S, A; MITRE
\* for T with a dot; for a bare T, MITRE exactly when the id is in the
\* candidate's mitre_attack list), and no suggestion is recorded when that
\* table has no hit.
C18_SuggestionFromInferredSource ==
  call.op = "verify" =>
    \A uid \in {u \in Range(call.invalid_ids) : u[1] \in {"K", "S", "A", "T"}} :
       LET table == ExpectedTable(call.draft_json, uid)
       IN /\ \A k \in SuggestionsFor(uid) :
               \E e \in Range(table) :
                  /\ e.id = call.invalid_id_suggestions[k].consider
                  /\ Prefix(e.description, MatchPrefix) = call.invalid_id_suggestions[k].about
          /\ ~HasHit(table, call.draft_json, uid) => SuggestionsFor(uid) = {}
          /\ HasHit(table, call.draft_json, uid) => SuggestionsFor(uid) # {}

\* A verify that recorded a MITRE entry for a dotted T id drafted under tasks
\* and for a bare T id drafted under mitre_attack, a NICE entry for a K id and
\* for a bare T id drafted under tasks only, and nothing for an id without hit.
C18_Witness ==
  /\ call.op = "verify"
  /\ \E uid \in Range(call.invalid_ids) :
        /\ uid[1] = "T" /\ "." \in Range(uid) /\ ~in_mitre(call.draft_json, uid)
        /\ SuggestionsFor(uid) # {}
  /\ \E uid \in Range(call.invalid_ids) :
        /\ uid[1] = "T" /\ "." \notin Range(uid) /\ in_mitre(call.draft_json, uid)
        /\ SuggestionsFor(uid) # {}
  /\ \E uid \in Range(call.invalid_ids) :
        /\ uid[1] = "T" /\ "." \notin Range(uid) /\ ~in_mitre(call.draft_json, uid)
        /\ SuggestionsFor(uid) # {}
  /\ \E uid \in Range(call.invalid_ids) : uid[1] = "K" /\ SuggestionsFor(uid) # {}
  /\ \E uid \in Range(call.invalid_ids) :
        /\ get_draft_description(call.draft_json, uid) # <<>>
        /\ SuggestionsFor(uid) = {}

\* The verdict request of the direct verify answered a verdict of the schema
\* {status: text, feedback: text}.
ParsedVerdict ==
  /\ call.op = "verify"
  /\ ~IsFault(call.resp) /\ ~IsProse(call.resp)
  /\ IsDict(loads_verdict(call.resp.json))
  /\ DOMAIN loads_verdict(call.resp.json) = {"status", "feedback"}
  /\ IsStr(loads_verdict(call.resp.json).status)
  /\ IsStr(loads_verdict(call.resp.json).feedback)

\* The places of the invalid ids of a suggestion list ascend.
InInvalidIdOrder(suggestions, uids) ==
  \A a, b \in DOMAIN suggestions :
     a < b => \E c, d \in DOMAIN uids :
                 /\ c < d
                 /\ uids[c] = suggestions[a].invalid
                 /\ uids[d] = suggestions[b].invalid

C20_HintsNotAlreadyCovered ==
  (call.op = "verify" /\ ~IsRaised(call.result)) =>
    \A a, b \in DOMAIN FeedbackLines(call.result) :
       LET la == FeedbackLines(call.result)[a]
           lb == FeedbackLines(call.result)[b]
       IN ("consider" \in DOMAIN la /\ "general" \in DOMAIN lb)
            => la.consider # lb.general

\* C21: the feedback generate_draft is about to be called with is empty on
\* attempt 1 of every run; on a later attempt it is the strict-JSON corrective
\* when the attempt before drafted nothing, and otherwise the feedback of the
\* verdict verify returned in the attempt before ("" when it has none).
C21_FeedbackThreading ==
  pc = "Drafting" =>
    IF i = 1 THEN feedback = NoText /\ hist.nDraft = 0
    ELSE IF ~Truthy(hist.drafted) THEN feedback = Text(S_InvalidJson)
    ELSE feedback = (IF "feedback" \in DOMAIN audit THEN audit.feedback ELSE NoText)

\* A later attempt is about to be drafted with a verdict's feedback that
\* carries appended suggestions.
C21_Witness ==
  /\ pc = "Drafting" /\ i > 1
  /\ Truthy(hist.drafted)
  /\ IsStr(feedback)
  /\ \E k \in DOMAIN feedback.str : "consider" \in DOMAIN feedback.str[k]

\* The verdict stored by the step says PASS, in whatever case.
PassVerdict(v) ==
  /\ "status" \in DOMAIN v
  /\ IsStr(v.status)
  /\ upper(v.status.str) = S_PASS

\* The step starts a new run.
NewRun == pc' = "Drafting" /\ i' = 1 /\ hist' = NewHist

\* Passed and Exhausted end the run: only a new run leaves them.
EndsAreTerminal ==
  pc \in {"Passed", "Exhausted"} => (pc' = pc \/ NewRun)

\* Passed is entered from Verifying only, on a PASS verdict.
PassedFromVerifying ==
  (pc' = "Passed" /\ pc # "Passed") => (pc = "Verifying" /\ PassVerdict(audit'))

\* Exhausted is entered in the last budgeted iteration only.
ExhaustedAtBudget ==
  (pc' = "Exhausted" /\ pc # "Exhausted") => i = MAX_LOOPS

C23_KbNeverModified ==
  [][mitre_data' = mitre_data /\ nice_data' = nice_data]_vars

\* verify returned hints and suggestions, which are tagged copies of entries
\* of loaded tables.
C23_Witness ==
  /\ Audited
  /\ mitre_data # <<>> /\ nice_data # <<>>
  /\ \E k \in DOMAIN FeedbackLines(audit) : "general" \in DOMAIN FeedbackLines(audit)[k]
  /\ \E k \in DOMAIN FeedbackLines(audit) : "consider" \in DOMAIN FeedbackLines(audit)[k]

\* The sections a focus excludes.
ExcludedSections(f) ==
  IF f = "mitre" THEN Range(NiceKeys)
  ELSE IF f = "ksa" THEN {MitreKey}
  ELSE {}

\* C24: _apply_focus_constraints returns an empty draft, and any draft under
\* a focus other than mitre and ksa, unchanged; under mitre and ksa every
\* excluded section is the empty list and every other field is as drafted.
C24_FocusChangesExcludedOnly ==
  (call.op = "apply_focus_constraints" /\ ~IsRaised(call.result)) =>
    IF ~Truthy(call.draft) \/ ExcludedSections(call.focus) = {}
    THEN call.result = call.draft
    ELSE /\ DOMAIN call.result = DOMAIN call.draft \cup ExcludedSections(call.focus)
         /\ \A k \in ExcludedSections(call.focus) : call.result[k] = EmptyList
         /\ \A k \in DOMAIN call.draft \ ExcludedSections(call.focus) :
               call.result[k] = call.draft[k]

\* A call under focus mitre that cleared a non-empty KSA list and kept a
\* non-empty mitre_attack list.
C24_Witness ==
  /\ call.op = "apply_focus_constraints"
  /\ call.focus = "mitre"
  /\ ~IsRaised(call.result)
  /\ IsDict(call.draft) /\ ~extract_raises(call.draft)
  /\ items_of(call.draft, "knowledge") # <<>>
  /\ items_of(call.result, "knowledge") = <<>>
  /\ items_of(call.result, MitreKey) # <<>>

\* The characters the fallback splits the raw input on.
Separators == {",", ".", " "}

\* The raw input split on commas, periods and whitespace: its longest runs of
\* other characters, from left to right.
RawInputTokens(s) ==
  LET starts == {a \in DOMAIN s :
                   s[a] \notin Separators /\ (a = 1 \/ s[a - 1] \in Separators)}
      endOf(a) == CHOOSE b \in a..Len(s) :
                    /\ \A c \in a..b : s[c] \notin Separators
                    /\ b = Len(s) \/ s[b + 1] \in Separators
      nth(k) == CHOOSE a \in starts : Cardinality({x \in starts : x < a}) = k - 1
  IN List([k \in 1..Cardinality(starts) |-> SubSeq(s, nth(k), endOf(nth(k)))])

\* C25: when the keyword request of verify fails, verify returns a verdict;
\* its alternatives are the search on the raw input split on commas, periods
\* and whitespace, its root-cause suggestions are those of the candidate, and
\* its verdict is the one the verdict request gives on these.
C25_KeywordFallback ==
  (call.op = "verify" /\ IsFault(call.kw)) =>
    /\ ~IsRaised(call.result)
    /\ call.alternatives =
         search_knowledge_base(mitre_data, nice_data, RawInputTokens(call.original_input))
    /\ call.invalid_id_suggestions =
         invalid_id_suggestions(mitre_data, nice_data, call.draft_json)
    /\ call.result =
         verdict_of(call.resp, call.invalid_id_suggestions, call.alternatives)

\* A verify whose keyword request failed and that still found alternatives,
\* recorded suggestions and returned the parsed FAIL verdict with both.
C25_Witness ==
  /\ call.op = "verify" /\ IsFault(call.kw)
  /\ call.alternatives # <<>>
  /\ call.invalid_id_suggestions # <<>>
  /\ ParsedVerdict
  /\ \E k \in DOMAIN FeedbackLines(call.result) :
        "general" \in DOMAIN FeedbackLines(call.result)[k]

\* The ids of the entries of the two tables.
TableIds ==
  {e.id : e \in Range(mitre_data)} \cup {e.id : e \in Range(nice_data)}

\* The identifiers a feedback proposes in its suggestions block.
ProposedIds(v) ==
  {FeedbackLines(v)[k].consider :
     k \in {x \in DOMAIN FeedbackLines(v) : "consider" \in DOMAIN FeedbackLines(v)[x]}}
  \cup
  {FeedbackLines(v)[k].general :
     k \in {x \in DOMAIN FeedbackLines(v) : "general" \in DOMAIN FeedbackLines(v)[x]}}

\* C26: every identifier verify proposes in its feedback, in a root-cause
\* suggestion or in a general hint, is the id of an entry of the MITRE or the
\* NICE table; with both tables empty it proposes none.
C26_ProposedIdsAreInKb ==
  (call.op = "verify" /\ ~IsRaised(call.result)) =>
    /\ ProposedIds(call.result) \subseteq TableIds
    /\ (mitre_data = <<>> /\ nice_data = <<>>) => ProposedIds(call.result) = {}

\* A verify that proposed identifiers of both kinds.
C26_Witness ==
  /\ call.op = "verify" /\ ~IsRaised(call.result)
  /\ \E k \in DOMAIN FeedbackLines(call.result) :
        "consider" \in DOMAIN FeedbackLines(call.result)[k]
  /\ \E k \in DOMAIN FeedbackLines(call.result) :
        "general" \in DOMAIN FeedbackLines(call.result)[k]
  /\ Cardinality(ProposedIds(call.result)) > 2

\* C27: run enters Passed only on a verdict whose upper-cased status is PASS,
\* and after every other verdict verify returns, one without status included,
\* it retries or ends Exhausted.
C27_OnlyPassIsAccepted ==
  [][/\ (pc' = "Passed" /\ pc # "Passed") => PassVerdict(audit')
     /\ (pc = "Verifying" /\ hist'.request # "none" /\ ~PassVerdict(audit'))
          => pc' \in {"Drafting", "Exhausted"}]_vars

====
